---------------------------- MODULE Spec2Model ----------------------------
(***************************************************************************)
(* Model of physics/particles.py (LocalDeterministicPhoton and             *)
(* OneBitEntangledPhoton) and of run_entangled_experiment in main.py.      *)
(*                                                                         *)
(* Angles are exact multiples of the lattice unit pi/(16*Res), so that     *)
(* pi/8, pi/4, pi/2 and pi are the integers PI8, PI4, PI2 and PI.  All     *)
(* comparisons (cos^2 > 0.5, the mod test of the decision bit) are taken   *)
(* in exact real arithmetic on that lattice; the rounding of np.cos and %  *)
(* in double precision at angles lying exactly on a threshold is not       *)
(* modelled.                                                               *)
(***************************************************************************)
EXTENDS Integers, Sequences, FiniteSets

\* Lattice resolution: pi/8 is 2*Res lattice units.
Res == 1
\* Largest number of measure_polarization calls made on one photon.
MaxCalls == 2

PI8 == 2 * Res
PI4 == 2 * PI8
PI2 == 2 * PI4
PI  == 2 * PI2

Photons == {"a", "b"}
Other(e) == IF e = "a" THEN "b" ELSE "a"

\* np.random.random() * np.pi : a hidden angle of [0, pi).
HiddenAngles == 0 .. (PI - 1)
\* np.random.random() * np.pi / 2, and the fixed 0 of detector A.
DetectorAngles == 0 .. PI2

VARIABLES
    experiment,       \* "local" | "entangled" : photon class under measurement; "run" : run_entangled_experiment
    photon,           \* the two photon objects a_photon, b_photon with their fields
    detector,         \* per photon: detector angle of its latest measure_polarization call
    outcome,          \* per photon: return value of its latest measure_polarization call
    calls,            \* per photon: number of measure_polarization calls made on it
    first_measured,   \* photon on which the first measure_polarization call was made
    last_measured,    \* photon on which the latest measure_polarization call was made
    b_detector_angle, \* run: detector angle of B (the angle bin under study)
    it,               \* run: loop index of run_entangled_experiment
    results,          \* run: the list of result records
    df                \* run: the aggregated frame: number of trials and of agreements

vars == <<experiment, photon, detector, outcome, calls, first_measured,
          last_measured, b_detector_angle, it, results, df>>

harness_vars == <<photon, detector, outcome, calls, first_measured, last_measured>>
run_vars == <<b_detector_angle, it, results, df>>

-----------------------------------------------------------------------------
(* Arithmetic of the source *)

\* Python's x % m for m > 0: x - m * floor(x / m), never negative.
PyMod(x, m) == x - m * (x \div m)

\* np.cos(x) ** 2 > 0.5, i.e. x is strictly within pi/4 of a multiple of pi.
CosSqAboveHalf(x) ==
    LET s == PyMod(x + PI4, PI) IN s > 0 /\ s < PI2

PASSED == "PASSED"
ABSORBED == "ABSORBED"
PolarizationMeasurementOutcome == {PASSED, ABSORBED}
\* PolarizationMeasurementOutcome.value
Value(o) == (o = PASSED)

-----------------------------------------------------------------------------
(* LocalDeterministicPhoton *)

LocalDeterministicPhoton(polarization_angle) ==
    [polarization_angle |-> polarization_angle]

\* Variant: the outcome also reads the detector setting of the other side.
Local_measure_polarization_nonlocal(self, detector_angle_rad) ==
    LET angle_difference == photon[self].polarization_angle - detector_angle_rad
                            - detector[Other(self)]
    IN  IF CosSqAboveHalf(angle_difference) THEN PASSED ELSE ABSORBED

Local_measure_polarization(self, detector_angle_rad) ==
    LET angle_difference == photon[self].polarization_angle - detector_angle_rad
    IN  IF CosSqAboveHalf(angle_difference) THEN PASSED ELSE ABSORBED

-----------------------------------------------------------------------------
(* OneBitEntangledPhoton: operators on a pair ph of photon objects *)

OneBitEntangledPhoton(reference_angle_rad) ==
    [decided |-> FALSE,
     use_strategy_b |-> FALSE,
     reference_angle_rad |-> reference_angle_rad,
     other_photon |-> "none"]

strategy_a(p, detector_angle_rad) ==
    LET angle_difference == p.reference_angle_rad - detector_angle_rad
    IN  IF CosSqAboveHalf(angle_difference) THEN PASSED ELSE ABSORBED

\* Variant: strategy B without its pi/4 offset (a copy of strategy A).
strategy_b_no_offset(p, detector_angle_rad) ==
    LET angle_difference == p.reference_angle_rad - detector_angle_rad
    IN  IF CosSqAboveHalf(angle_difference) THEN PASSED ELSE ABSORBED

strategy_b(p, detector_angle_rad) ==
    LET angle_difference == p.reference_angle_rad - detector_angle_rad
    IN  IF CosSqAboveHalf(angle_difference - PI4) THEN PASSED ELSE ABSORBED

entangle(ph, self, other_photon) ==
    [ph EXCEPT ![self].other_photon = other_photon]

\* Variant: the message marks the receiver decided but drops the bit.
superluminal_communication_drops_bit(ph, self, use_strategy_b) ==
    [ph EXCEPT ![self].decided = TRUE]

superluminal_communication(ph, self, use_strategy_b) ==
    [ph EXCEPT ![self].use_strategy_b = use_strategy_b,
               ![self].decided = TRUE]

\* Variant: a truncating modulus (sign of the dividend) in the decision.
decide_strategy_truncating_mod(p, detector_angle_rad) ==
    LET x == p.reference_angle_rad - detector_angle_rad - PI8
        rem == IF x >= 0 THEN x % PI2 ELSE -((-x) % PI2)
    IN  rem < PI4

\* The decision of lines 80-81.
decide_strategy(p, detector_angle_rad) ==
    LET angle_difference == p.reference_angle_rad - detector_angle_rad
    IN  PyMod(angle_difference - PI8, PI2) < PI4

\* Variant: the decision is recomputed on every call, decided or not.
measure_polarization_state_always_decides(ph, self, detector_angle_rad) ==
    LET bit == decide_strategy(ph[self], detector_angle_rad)
        set == [ph EXCEPT ![self].use_strategy_b = bit]
    IN  superluminal_communication(set, set[self].other_photon, bit)

\* Variant: the bit is sent to the partner but not stored on the measured photon.
measure_polarization_state_partner_only(ph, self, detector_angle_rad) ==
    IF ~ph[self].decided
    THEN LET bit == decide_strategy(ph[self], detector_angle_rad)
         IN  superluminal_communication(ph, ph[self].other_photon, bit)
    ELSE ph

\* The pair after self.measure_polarization(detector_angle_rad).
measure_polarization_state(ph, self, detector_angle_rad) ==
    IF ~ph[self].decided
    THEN LET bit == decide_strategy(ph[self], detector_angle_rad)
             set == [ph EXCEPT ![self].use_strategy_b = bit]
         IN  superluminal_communication(set, set[self].other_photon, bit)
    ELSE ph

\* Variant: the two strategies exchanged.
measure_polarization_return_swapped(ph, self, detector_angle_rad) ==
    IF ph[self].use_strategy_b
    THEN strategy_a(ph[self], detector_angle_rad)
    ELSE strategy_b(ph[self], detector_angle_rad)

\* Variant: a defended measure_polarization, which faults on a photon that
\* has been measured before.
measure_polarization_return_asserting(ph, self, detector_angle_rad) ==
    IF calls[self] > 0 THEN "AssertionError"
    ELSE IF ph[self].use_strategy_b
         THEN strategy_b(ph[self], detector_angle_rad)
         ELSE strategy_a(ph[self], detector_angle_rad)

\* What self.measure_polarization(detector_angle_rad) returns; ph is the pair
\* after the decision step.
measure_polarization_return(ph, self, detector_angle_rad) ==
    IF ph[self].use_strategy_b
    THEN strategy_b(ph[self], detector_angle_rad)
    ELSE strategy_a(ph[self], detector_angle_rad)

-----------------------------------------------------------------------------
(* run_entangled_experiment *)

a_detector_angle == 0

\* The reference angles of the trials: the midpoints of the lattice cells of
\* [0, pi), one per trial, in place of the uniform random draw.
n_steps == PI2
reference_angle_of(i) == 2 * i + 1
\* The angle bins of detector B: the cell boundaries of [0, pi/2].
AngleBins == {d \in DetectorAngles : d % 2 = 0}

\* One pass of the loop body: the result record of a trial.
trial(reference_angle, a_det, b_det) ==
    LET new == [e \in Photons |-> OneBitEntangledPhoton(reference_angle)]
        ent == entangle(entangle(new, "a", "b"), "b", "a")
        pa  == measure_polarization_state(ent, "a", a_det)
        a_polarization_status == measure_polarization_return(pa, "a", a_det)
        pb  == measure_polarization_state(pa, "b", b_det)
        b_polarization_status == measure_polarization_return(pb, "b", b_det)
    IN  [a_outcome |-> Value(a_polarization_status),
         b_outcome |-> Value(b_polarization_status),
         a_detector |-> a_det,
         b_detector |-> b_det]

RECURSIVE agreement_sum(_)
agreement_sum(rs) ==
    IF rs = <<>> THEN 0
    ELSE (IF Head(rs).a_outcome = Head(rs).b_outcome THEN 1 ELSE 0)
         + agreement_sum(Tail(rs))

\* The reference curve of the chart, np.cos(angle) ** 2, compared exactly with
\* the fraction num/den.  cos^2 of a rational multiple of pi is rational only
\* at the multiples of pi/4 (1, 1/2, 0) and of pi/6 (1, 3/4, 1/4, 0).
cos_squared_is(num, den, angle) ==
    IF (4 * angle) % PI = 0
    THEN LET j == ((4 * angle) \div PI) % 4
         IN  \/ j = 0 /\ num = den
             \/ j \in {1, 3} /\ 2 * num = den
             \/ j = 2 /\ num = 0
    ELSE IF (6 * angle) % PI = 0
    THEN LET j == ((6 * angle) \div PI) % 6
         IN  \/ j \in {1, 5} /\ 4 * num = 3 * den
             \/ j \in {2, 4} /\ 4 * num = den
    ELSE FALSE

-----------------------------------------------------------------------------
(* Initial states *)

NoCalls ==
    /\ detector = [e \in Photons |-> 0]
    /\ outcome = [e \in Photons |-> "none"]
    /\ calls = [e \in Photons |-> 0]
    /\ first_measured = "none"
    /\ last_measured = "none"

NoRun ==
    /\ b_detector_angle = 0
    /\ it = 0
    /\ results = <<>>
    /\ df = [n |-> 0, agreement |-> 0]

InitLocal ==
    /\ experiment = "local"
    /\ \E polarization_angle \in HiddenAngles :
          photon = [e \in Photons |-> LocalDeterministicPhoton(polarization_angle)]
    /\ NoCalls
    /\ NoRun

InitEntangled ==
    /\ experiment = "entangled"
    /\ \E reference_angle \in HiddenAngles :
          photon = [e \in Photons |-> OneBitEntangledPhoton(reference_angle)]
    /\ NoCalls
    /\ NoRun

InitRun ==
    /\ experiment = "run"
    /\ photon = [e \in Photons |-> "none"]
    /\ NoCalls
    /\ b_detector_angle \in AngleBins
    /\ it = 0
    /\ results = <<>>
    /\ df = [n |-> 0, agreement |-> 0]

Init == InitLocal \/ InitEntangled \/ InitRun

-----------------------------------------------------------------------------
(* Actions *)

Recorded(self, d, o) ==
    /\ detector' = [detector EXCEPT ![self] = d]
    /\ outcome' = [outcome EXCEPT ![self] = o]
    /\ calls' = [calls EXCEPT ![self] = @ + 1]
    /\ first_measured' = IF first_measured = "none" THEN self ELSE first_measured
    /\ last_measured' = self

\* a_photon.measure_polarization(d) on a LocalDeterministicPhoton.
MeasureLocal(self, d) ==
    /\ experiment = "local"
    /\ calls[self] < MaxCalls
    /\ photon' = photon
    /\ Recorded(self, d, Local_measure_polarization(self, d))
    /\ UNCHANGED <<experiment, run_vars>>

\* self.entangle(the other photon), as in lines 156-157 of main.py.
Entangle(self) ==
    /\ experiment = "entangled"
    /\ photon[self].other_photon = "none"
    /\ photon' = entangle(photon, self, Other(self))
    /\ UNCHANGED <<experiment, detector, outcome, calls, first_measured,
                   last_measured, run_vars>>

MutuallyEntangled ==
    \A e \in Photons : photon[e].other_photon = Other(e)

\* self.measure_polarization(d) on a photon of a mutually entangled pair.
MeasureEntangled(self, d) ==
    /\ experiment = "entangled"
    /\ MutuallyEntangled
    /\ calls[self] < MaxCalls
    /\ photon' = measure_polarization_state(photon, self, d)
    /\ Recorded(self, d, measure_polarization_return(photon', self, d))
    /\ UNCHANGED <<experiment, run_vars>>

\* One pass of the loop of run_entangled_experiment.
Trial ==
    /\ experiment = "run"
    /\ it < n_steps
    /\ results' = Append(results,
                         trial(reference_angle_of(it), a_detector_angle, b_detector_angle))
    /\ it' = it + 1
    /\ UNCHANGED <<experiment, harness_vars, b_detector_angle, df>>

\* The frame built after the loop: df["agreement"] and its mean's terms.
Aggregate ==
    /\ experiment = "run"
    /\ it = n_steps
    /\ df.n = 0
    /\ df' = [n |-> Len(results), agreement |-> agreement_sum(results)]
    /\ UNCHANGED <<experiment, harness_vars, b_detector_angle, it, results>>

Next ==
    \/ \E self \in Photons, d \in DetectorAngles : MeasureLocal(self, d)
    \/ \E self \in Photons : Entangle(self)
    \/ \E self \in Photons, d \in DetectorAngles : MeasureEntangled(self, d)
    \/ Trial
    \/ Aggregate

Spec == Init /\ [][Next]_vars

-----------------------------------------------------------------------------
(* Properties *)

IsEntangled == experiment = "entangled"
IsLocal == experiment = "local"
Measured == first_measured # "none"
TotalCalls == calls["a"] + calls["b"]
ReferenceAngle == photon["a"].reference_angle_rad

\* x lies in [pi/8, 3pi/8) shifted by a multiple of pi/2: the non-negative
\* residue of x - pi/8 modulo pi/2 is below pi/4.
InDecisionWindow(x) ==
    \E k \in -2 .. 2 : PI8 + k * PI2 <= x /\ x < PI8 + k * PI2 + PI4

\* x lies strictly within pi/4 of a multiple of pi: cos(x)^2 > 1/2.
WithinQuarterOfPi(x) ==
    \E k \in -2 .. 2 : k * PI - PI4 < x /\ x < k * PI + PI4

\* C1: on a mutually entangled pair, decided is false on both photons until
\* the first measure_polarization call and true on both photons after it.
C1_DecidedOnBoth ==
    (IsEntangled /\ MutuallyEntangled) =>
        \A e \in Photons : photon[e].decided = Measured

\* C2: the two photons of a mutually entangled pair hold the same
\* use_strategy_b in every reachable state, whatever calls were made.
C2_SameStrategyBit ==
    IsEntangled => photon["a"].use_strategy_b = photon["b"].use_strategy_b

C2_Witness ==
    /\ IsEntangled
    /\ TotalCalls >= 3
    /\ calls[first_measured] = 2
    /\ photon["a"].use_strategy_b
    /\ photon["b"].use_strategy_b

\* C3: once a first measurement has been made, no later measure_polarization
\* call changes use_strategy_b on either photon.
C3_BitFixedAfterFirstMeasurement ==
    [][(IsEntangled /\ Measured) =>
          \A e \in Photons : photon'[e].use_strategy_b = photon[e].use_strategy_b]_vars

\* C4: the first call of a trial changes the pair's state; the call on the
\* partner Y of the first-measured photon X that follows it changes no field
\* of either photon, and the bit both hold after it is the one fixed by the
\* reference angle and X's detector angle alone.
C4_SecondEndpointSkipsDecision ==
    [][IsEntangled =>
         /\ (TotalCalls = 0 /\ Measured') => photon' # photon
         /\ (/\ Measured
             /\ calls[first_measured] = 1
             /\ calls[Other(first_measured)] = 0
             /\ calls'[Other(first_measured)] = 1)
            => /\ photon' = photon
               /\ \A e \in Photons :
                     photon'[e].use_strategy_b
                       = InDecisionWindow(ReferenceAngle - detector[first_measured])]_vars

C4_Witness ==
    /\ IsEntangled
    /\ calls = [e \in Photons |-> 1]
    /\ first_measured = "a"
    /\ last_measured = "b"
    /\ detector["b"] # detector["a"]
    /\ photon["b"].use_strategy_b
    /\ decide_strategy(photon["b"], detector["b"]) = FALSE

\* C5: after the first measurement, at detector angle d with reference angle
\* r, the bit stored on both photons is ((r - d - pi/8) mod (pi/2)) < pi/4
\* with a non-negative mod; for r = 0, d = 0 the bit is false and the outcome
\* is PASSED.
C5_DecisionBit ==
    (IsEntangled /\ TotalCalls = 1) =>
        /\ \A e \in Photons :
              photon[e].use_strategy_b
                = InDecisionWindow(ReferenceAngle - detector[first_measured])
        /\ (ReferenceAngle = 0 /\ detector[first_measured] = 0) =>
              /\ ~photon[first_measured].use_strategy_b
              /\ outcome[first_measured] = PASSED

C5_Witness ==
    /\ IsEntangled
    /\ TotalCalls = 1
    /\ ReferenceAngle - detector[first_measured] - PI8 < 0
    /\ photon["a"].use_strategy_b
    /\ photon["b"].use_strategy_b

\* C6: the outcome returned by the latest measure_polarization call is that
\* of the strategy selected by the bit decided by the first-measured photon,
\* applied to the called photon's own detector angle: strategy A (cos^2(r - d)
\* > 0.5) when the bit is false, strategy B (cos^2(r - d - pi/4) > 0.5) when
\* it is true.
C6_OutcomeOfSelectedStrategy ==
    (IsEntangled /\ Measured) =>
        LET bit == photon[first_measured].use_strategy_b
            x == ReferenceAngle - detector[last_measured]
        IN  /\ bit = InDecisionWindow(ReferenceAngle - detector[first_measured])
            /\ outcome[last_measured] \in PolarizationMeasurementOutcome
            /\ (outcome[last_measured] = PASSED)
                 = IF bit THEN WithinQuarterOfPi(x - PI4) ELSE WithinQuarterOfPi(x)

C6_Witness ==
    /\ IsEntangled
    /\ TotalCalls = 2
    /\ last_measured = Other(first_measured)
    /\ photon[first_measured].use_strategy_b
    /\ detector["a"] # detector["b"]
    /\ outcome[last_measured] = PASSED
    /\ outcome[first_measured] = PASSED

\* C7 (as claimed): a second measure_polarization call on the same photon
\* ends in a fault, not in one of the outcomes PASSED and ABSORBED.
C7_SecondCallFaults ==
    (IsEntangled /\ Measured /\ calls[last_measured] >= 2) =>
        outcome[last_measured] \notin PolarizationMeasurementOutcome

\* C7 (amended): a second measure_polarization call on the same photon
\* raises no fault; it returns one of the outcomes PASSED and ABSORBED.
C7_SecondCallReturnsOutcome ==
    (IsEntangled /\ Measured /\ calls[last_measured] >= 2) =>
        outcome[last_measured] \in PolarizationMeasurementOutcome

C7_Witness ==
    /\ IsEntangled
    /\ Measured
    /\ last_measured = first_measured
    /\ calls[last_measured] = 2
    /\ outcome[last_measured] = ABSORBED

RunDone == experiment = "run" /\ df.n > 0
\* The agreement fraction df.agreement / df.n against 1 - 2*Delta/pi.
AboveBellBound == df.agreement * PI > (PI - 2 * b_detector_angle) * df.n
AtBellBound == df.agreement * PI = (PI - 2 * b_detector_angle) * df.n
BelowBellBound == df.agreement * PI < (PI - 2 * b_detector_angle) * df.n
OnQuantumCurve == cos_squared_is(df.agreement, df.n, b_detector_angle)

\* C8 (as claimed): for an angle difference strictly between pi/8 and 3pi/8
\* the agreement fraction is above the Bell-local bound 1 - 2*Delta/pi and
\* differs from cos^2(Delta).
C8_MidRangeAboveBound ==
    (RunDone /\ PI8 < b_detector_angle /\ b_detector_angle < 3 * PI8) =>
        AboveBellBound /\ ~OnQuantumCurve

\* C8 (amended): the agreement fraction is above the Bell-local bound for
\* 0 < Delta < pi/4, meets both the bound and cos^2(Delta) = 1/2 at
\* Delta = pi/4, is below the bound for pi/4 < Delta < pi/2, and differs from
\* cos^2(Delta) everywhere in (0, pi/2) but at pi/4.
C8_AgreementCurve ==
    RunDone =>
        /\ df.n = n_steps
        /\ (0 < b_detector_angle /\ b_detector_angle < PI4) => AboveBellBound
        /\ b_detector_angle = PI4 => (AtBellBound /\ OnQuantumCurve)
        /\ (PI4 < b_detector_angle /\ b_detector_angle < PI2) => BelowBellBound
        /\ (0 < b_detector_angle /\ b_detector_angle < PI2 /\ b_detector_angle # PI4)
             => ~OnQuantumCurve

C8_Witness ==
    /\ RunDone
    /\ b_detector_angle = PI8
    /\ df.agreement = df.n

\* C9: a call on a LocalDeterministicPhoton changes no photon's state, and
\* the outcome of a photon's latest call is determined by its own
\* polarization angle and the detector angle of that call, whatever the
\* order of the calls, the angles used on the other photon and the number of
\* earlier calls.
C9_LocalDeterministic ==
    /\ [][IsLocal => photon' = photon]_vars
    /\ [](IsLocal =>
            \A e \in Photons :
               calls[e] > 0 =>
                  outcome[e] = IF WithinQuarterOfPi(photon[e].polarization_angle
                                                    - detector[e])
                               THEN PASSED ELSE ABSORBED)

C9_Witness ==
    /\ IsLocal
    /\ first_measured = "b"
    /\ last_measured = "a"
    /\ calls["a"] = 2
    /\ calls["b"] = 1
    /\ detector["a"] # detector["b"]
    /\ outcome["a"] = PASSED
    /\ outcome["b"] = ABSORBED

\* C10: two photons built with the same hidden angle (a mutually entangled
\* pair, or two local photons), each measured once with the same detector
\* angle, in either order, give equal outcomes.
C10_EqualSettingsAgree ==
    (/\ experiment \in {"local", "entangled"}
     /\ calls["a"] = 1
     /\ calls["b"] = 1
     /\ detector["a"] = detector["b"])
    => outcome["a"] = outcome["b"]

C10_Witness ==
    /\ IsEntangled
    /\ calls = [e \in Photons |-> 1]
    /\ first_measured = "b"
    /\ detector["a"] = detector["b"]
    /\ photon["a"].use_strategy_b
    /\ outcome["a"] = PASSED
    /\ outcome["b"] = PASSED
    /\ strategy_a(photon["a"], detector["a"]) = ABSORBED

=============================================================================
